---- MODULE Spec2Model ----
(***************************************************************************)
(* A model of the Clubworx client (index.js): the login handshake, the     *)
(* Session object and its accessors, and the pure reshaping functions      *)
(* (reportById's row decoding, _formatMemberData).                         *)
(*                                                                         *)
(* Representation.  A JavaScript string is a sequence of chunks (TLA+      *)
(* strings), so that split, join, includes, startsWith and indexing are    *)
(* computed and not assumed.  A JavaScript scalar is a tagged sequence:    *)
(* <<"undefined">>, <<"null">>, <<"bool","false">>, <<"num","0">>,         *)
(* <<"str", c1, ..., cn>> (the string of chunks c1..cn).                   *)
(***************************************************************************)
EXTENDS Integers, Sequences, FiniteSets, TLC

VARIABLES
    pc,                 \* where the caller / login() is
    loginResult,        \* how login() ended: "none", "Session" or an error kind
    loginPageResponse,  \* login's local loginPageResponse: <<>> or <<response>>
    loginResponse,      \* login's local loginResponse: <<>> or <<response>>
    allCookies,         \* login's local allCookies (array of raw Set-Cookie strings)
    currentUrl,         \* login's local currentUrl: [defined, url]
    redirectCount,      \* login's local redirectCount
    dashboardResponse,  \* login's local dashboardResponse: <<>> or <<response>>
    nReq,               \* HTTP requests issued by login: [get, post, hop]
    lastReq,            \* the last HTTP request sent: <<>> or <<request>>
    session,            \* the Session object in use: <<>> or <<[cookies, gymId]>>
    pending,            \* the accessor awaiting its response, or "none"
    options,            \* the pending call's options argument: <<>> or <<options>>
    last,               \* the last Session operation: <<>> or <<[op, resp, outcome, parsed]>>
    ret,                \* what the last Session operation returned
    rbody,              \* reportById: the parsed response body [columns, rows]
    rout,               \* reportById: <<>> or <<[threw, objs]>>
    member,             \* _formatMemberData: the source object
    mout                \* _formatMemberData: <<>> or <<formatted member>>

vars == <<pc, loginResult, loginPageResponse, loginResponse, allCookies, currentUrl, redirectCount, dashboardResponse,
          nReq, lastReq, session, pending, options, last, ret, rbody, rout, member, mout>>

locals == <<loginPageResponse, loginResponse, allCookies, currentUrl, redirectCount,
            dashboardResponse>>

loginVars == <<pc, loginResult, locals, nReq>>

pureVars == <<rbody, rout, member, mout>>

(***************************************************************************)
(* JavaScript values                                                       *)
(***************************************************************************)
Undefined == <<"undefined">>

Null == <<"null">>

False == <<"bool", "false">>

Num0 == <<"num", "0">>

Num7 == <<"num", "7">>

StrEmpty == <<"str">>

StrG1 == <<"str", "g", "1">>

\* !v is false: every value but undefined, null, false, 0 and "" is truthy
Truthy(v) == v \notin {Undefined, Null, False, Num0, StrEmpty}

\* a || b
Or(a, b) == IF Truthy(a) THEN a ELSE b

(***************************************************************************)
(* Strings as sequences of chunks                                          *)
(***************************************************************************)
\* s.startsWith(p)
StartsWith(s, p) == Len(s) >= Len(p) /\ SubSeq(s, 1, Len(p)) = p

\* s.includes(n)
Includes(s, n) ==
    \E i \in 1..(Len(s) - Len(n) + 1) : SubSeq(s, i, i + Len(n) - 1) = n

\* c.split(';')[0]: the part of c before its first ';'
SplitFirst(c) ==
    IF \E i \in 1..Len(c) : c[i] = ";"
    THEN LET i == CHOOSE j \in 1..Len(c) :
                      c[j] = ";" /\ \A k \in 1..(j - 1) : c[k] # ";"
         IN  SubSeq(c, 1, i - 1)
    ELSE c

RECURSIVE JoinFrom(_, _)
JoinFrom(parts, i) ==
    IF i > Len(parts) THEN <<>>
    ELSE IF i = Len(parts) THEN parts[i]
    ELSE parts[i] \o <<";", " ">> \o JoinFrom(parts, i + 1)

\* parts.join('; ')
Join(parts) == JoinFrom(parts, 1)

\* cookies.map(c => c.split(';')[0]).join('; ')
CookieHeader(cookies) ==
    Join([i \in 1..Len(cookies) |-> SplitFirst(cookies[i])])

(***************************************************************************)
(* HTML scraping                                                           *)
(***************************************************************************)
\* The sign-in page is the sequence of its  name="N" value="V"  attribute
\* pairs.  The pattern needs at least one character in the value ([^"]+), so
\* the first pair named authenticity_token with a non-empty value matches.
extractAuthToken(html) ==
    IF \E i \in 1..Len(html) :
           html[i].name = "authenticity_token" /\ Len(html[i].value) > 0
    THEN LET i == CHOOSE j \in 1..Len(html) :
                      /\ html[j].name = "authenticity_token"
                      /\ Len(html[j].value) > 0
                      /\ \A k \in 1..(j - 1) :
                             ~(html[k].name = "authenticity_token"
                               /\ Len(html[k].value) > 0)
         IN  <<"str">> \o html[i].value
    ELSE Null

\* JSON.parse of a script block's text: a text is [wf, kind, hasId, id]; a
\* text that is not well formed makes JSON.parse throw.
JsonThrows(text) == ~text.wf

\* The dashboard page is the sequence of its <script> blocks [id, empty,
\* text].  The pattern takes the first gym-data block; ([\s\S]+?) needs at
\* least one character, so an empty block makes the match run on into the
\* markup that follows, which is no JSON.  gymData.id throws on a null
\* gymData (caught, like a parse error) and is undefined when there is no
\* id field.
extractGymId(html) ==
    IF \E i \in 1..Len(html) : html[i].id = "gym-data"
    THEN LET i == CHOOSE j \in 1..Len(html) :
                      /\ html[j].id = "gym-data"
                      /\ \A k \in 1..(j - 1) : html[k].id # "gym-data"
             b == html[i]
         IN  IF b.empty \/ JsonThrows(b.text) THEN Null
             ELSE IF b.text.kind = "null" THEN Null
             ELSE IF b.text.hasId THEN b.text.id
             ELSE Undefined
    ELSE Null

(***************************************************************************)
(* HTTP: what the server may answer (the inputs of the model)              *)
(***************************************************************************)
Origin == <<"http", "s://app.clubworx.com">>

SignInPath == <<"/users", "/sign_in">>

\* raw Set-Cookie strings
CookieInit == <<"_csrf=i", ";", " ", "Path=/">>

CookieA == <<"_session=a", ";", " ", "Path=/", ";", " ", "HttpOnly">>

CookieB == <<"remember=b">>

\* a header that may be missing: headers['location'] is undefined or a string
NoHeader == [defined |-> FALSE, url |-> <<>>]

Header(u) == [defined |-> TRUE, url |-> u]

LoginLocations ==
    {NoHeader, Header(<<"/dashboard">>), Header(Origin \o <<"/gyms", "/7">>)}

Attr(n, v) == [name |-> n, value |-> v]

SignInPages ==
    { <<>>,
      <<Attr("utf8", <<"x">>)>>,
      <<Attr("authenticity_token", <<>>)>>,
      <<Attr("utf8", <<"x">>), Attr("authenticity_token", <<"tok">>)>>,
      <<Attr("authenticity_token", <<>>), Attr("authenticity_token", <<"t", "2">>)>> }

SignInResponses ==
    [statusCode : {200, 500}, setCookie : {<<>>, <<CookieInit>>}, body : SignInPages]

\* headers['set-cookie'] is undefined (here <<>>) or a non-empty array
LoginResponses ==
    [statusCode : {200, 301, 302},
     setCookie : {<<>>, <<CookieA>>, <<CookieB, CookieA>>},
     location : LoginLocations]

JsonText(w, k, h, v) == [wf |-> w, kind |-> k, hasId |-> h, id |-> v]

GymIds == {Num7, StrG1, Num0, StrEmpty, False, Null}

GymTexts ==
    {JsonText(FALSE, "object", FALSE, Undefined),
     JsonText(TRUE, "null", FALSE, Undefined),
     JsonText(TRUE, "number", FALSE, Undefined),
     JsonText(TRUE, "object", FALSE, Undefined)}
    \cup {JsonText(TRUE, "object", TRUE, v) : v \in GymIds}

Script(i, e, t) == [id |-> i, empty |-> e, text |-> t]

OtherScript == Script("other", FALSE, JsonText(TRUE, "object", TRUE, Num7))

DashboardPages ==
    { <<>>, <<OtherScript>>,
      <<Script("gym-data", TRUE, JsonText(TRUE, "object", TRUE, Num7))>> }
    \cup {<<Script("gym-data", FALSE, t)>> : t \in GymTexts}
    \cup {<<OtherScript, Script("gym-data", FALSE, JsonText(TRUE, "object", TRUE, StrG1))>>}

\* a redirect hop's answer; a redirect carries one of two bodies
HopResponses ==
    { r \in [statusCode : {200, 301, 302},
             setCookie : {<<>>, <<CookieB>>},
             location : LoginLocations,
             body : DashboardPages] :
        /\ r.statusCode = 200 => r.location = NoHeader
        /\ r.statusCode # 200 =>
               r.body \in {<<>>, <<Script("gym-data", FALSE,
                                          JsonText(TRUE, "object", TRUE, Num7))>>} }

(***************************************************************************)
(* Header objects and the request put on the wire                          *)
(***************************************************************************)
\* A headers object is the sequence of its own keys, in insertion order,
\* each with its value.
Pair(n, v) == [name |-> n, value |-> v]

HasKey(obj, n) == \E i \in 1..Len(obj) : obj[i].name = n

\* obj[n] = v: a key the object has keeps its place, a new key goes last;
\* keys are compared as they are written ('cookie' is not 'Cookie')
Put(obj, n, v) ==
    IF HasKey(obj, n)
    THEN [i \in 1..Len(obj) |-> IF obj[i].name = n THEN Pair(n, v) ELSE obj[i]]
    ELSE Append(obj, Pair(n, v))

RECURSIVE SpreadFrom(_, _, _)
SpreadFrom(obj, src, i) ==
    IF i > Len(src) THEN obj
    ELSE SpreadFrom(Put(obj, src[i].name, src[i].value), src, i + 1)

\* { ...obj, ...src }
Spread(obj, src) == SpreadFrom(obj, src, 1)

\* name.toLowerCase(), on the header names of the model
ToLowerCase(n) ==
    CASE n = "Accept" -> "accept"
      [] n = "Cookie" -> "cookie"
      [] n = "X-Trace" -> "x-trace"
      [] n = "Content-Type" -> "content-type"
      [] n = "Content-Length" -> "content-length"
      [] OTHER -> n

\* https.request sets the keys of reqOptions.headers one after the other
\* and header names are case-insensitive: of two keys that differ in case
\* only, the later one is sent.  <<>> when no key has this name.
HeaderSent(headers, lname) ==
    IF \E i \in 1..Len(headers) : ToLowerCase(headers[i].name) = lname
    THEN LET i == CHOOSE j \in 1..Len(headers) :
                      /\ ToLowerCase(headers[j].name) = lname
                      /\ \A k \in (j + 1)..Len(headers) :
                             ToLowerCase(headers[k].name) # lname
         IN  <<headers[i].value>>
    ELSE <<>>

\* the names of the headers sent
NamesSent(headers) == {ToLowerCase(headers[i].name) : i \in 1..Len(headers)}

\* the Cookie header sent; an absent one reads as the empty string
CookieSent(headers) ==
    IF HeaderSent(headers, "cookie") = <<>> THEN <<>>
    ELSE HeaderSent(headers, "cookie")[1]

\* request(url, options): method, url, headers and body as handed to
\* https.request, and the Cookie header that goes out
Request(m, u, h, b) ==
    [method |-> m, url |-> u, headers |-> h, cookie |-> CookieSent(h), body |-> b]

(***************************************************************************)
(* Session                                                                 *)
(***************************************************************************)
\* this.cookies is an array of raw cookie strings or an already joined string
ArrayCookies(items) == [kind |-> "array", items |-> items, str |-> <<>>]

StringCookies(s) == [kind |-> "string", items |-> <<>>, str |-> s]

NoCookies == [kind |-> "undefined", items |-> <<>>, str |-> <<>>]

\* !cookies is false: an array (even an empty one) and a non-empty string
TruthyCookies(c) ==
    \/ c.kind = "array"
    \/ c.kind = "string" /\ Len(c.str) > 0

\* constructor(cookies, gymId)
NewSession(cookies, gymId) == [cookies |-> cookies, gymId |-> gymId]

\* toJSON()
toJSON(s) == [isNullish |-> FALSE, cookies |-> s.cookies, gymId |-> s.gymId]

\* fromJSON(data) throws 'Invalid session data'
fromJSONThrows(data) ==
    data.isNullish \/ ~TruthyCookies(data.cookies) \/ ~Truthy(data.gymId)

\* fromJSON(data), when it does not throw
fromJSON(data) == NewSession(data.cookies, data.gymId)

(***************************************************************************)
(* login                                                                   *)
(***************************************************************************)
maxRedirects == 5

\* the check of the token left out
TokenMissing_Unchecked(authToken) == FALSE

\* !authToken
TokenMissing(authToken) == ~Truthy(authToken)

\* && written for ||
LoginRejected_And(cookies, statusCode) == Len(cookies) = 0 /\ statusCode # 302

\* !allCookies.length || loginResponse.statusCode !== 302
LoginRejected(cookies, statusCode) == Len(cookies) = 0 \/ statusCode # 302

\* <= written for <
LoopContinues_OneMore(count) == count <= maxRedirects

\* the while condition
LoopContinues(count) == count < maxRedirects

\* > written for >=
BudgetExhausted_Strict(count) == count > maxRedirects

\* redirectCount >= maxRedirects
BudgetExhausted(count) == count >= maxRedirects

\* dashboardResponse.statusCode !== 302 && dashboardResponse.statusCode !== 301
NotRedirect(statusCode) == statusCode # 302 /\ statusCode # 301

\* currentUrl.startsWith('http') ? currentUrl : `https://app.clubworx.com${currentUrl}`
TargetUrl(url) == IF StartsWith(url, <<"http">>) THEN url ELSE Origin \o url

\* !gymId
GymIdMissing(gymId) == ~Truthy(gymId)

Throw(kind) ==
    /\ pc' = "failed"
    /\ loginResult' = kind
    /\ UNCHANGED <<nReq, lastReq, session>>

\* after the loop: the budget check, the extraction, the Session
AfterLoop(cookies, count, dash) ==
    IF BudgetExhausted(count) THEN Throw("TooManyRedirects")
    ELSE LET gymId == extractGymId(dash.body)
         IN  IF GymIdMissing(gymId) THEN Throw("GymIdNotFound")
             ELSE /\ pc' = "done"
                  /\ loginResult' = "Session"
                  /\ session' = <<NewSession(ArrayCookies(cookies), gymId)>>
                  /\ UNCHANGED <<nReq, lastReq>>

\* the loop test and one iteration up to its request; currentUrl.startsWith
\* throws a TypeError when the Location header was missing
LoopHead(cookies, url, count, dash) ==
    IF LoopContinues(count)
    THEN IF ~url.defined THEN Throw("TypeError")
         ELSE /\ pc' = "awaitHop"
              /\ nReq' = [nReq EXCEPT !.hop = @ + 1]
              /\ lastReq' = <<Request("GET", TargetUrl(url.url),
                                      <<Pair("Cookie", CookieHeader(cookies))>>, Null)>>
              /\ UNCHANGED <<loginResult, session>>
    ELSE AfterLoop(cookies, count, dash[1])

\* the headers of the credential POST; the form data is told by its token
PostHeaders(initialCookies, authToken) ==
    <<Pair("Content-Type", <<"application/x-www-form-urlencoded">>),
      Pair("Content-Length", <<"byteLength(">> \o Tail(authToken) \o <<")">>),
      Pair("Cookie", CookieHeader(initialCookies))>>

\* login(email, password) up to its first await: GET the sign-in page
LoginCall ==
    /\ pc = "start"
    /\ pc' = "awaitPage"
    /\ nReq' = [nReq EXCEPT !.get = @ + 1]
    /\ lastReq' = <<Request("GET", Origin \o SignInPath, <<>>, Null)>>
    /\ UNCHANGED <<loginResult, locals, session, pending, options, last, ret, pureVars>>

\* the sign-in page arrives: extract the token, POST the credentials
OnSignInPage ==
    /\ pc = "awaitPage"
    /\ \E resp \in SignInResponses :
         LET authToken == extractAuthToken(resp.body)
         IN  /\ loginPageResponse' = <<resp>>
             /\ IF TokenMissing(authToken) THEN Throw("AuthTokenNotFound")
                ELSE /\ pc' = "awaitPost"
                     /\ nReq' = [nReq EXCEPT !.post = @ + 1]
                     /\ lastReq' = <<Request("POST", Origin \o SignInPath,
                                             PostHeaders(resp.setCookie, authToken),
                                             authToken)>>
                     /\ UNCHANGED <<loginResult, session>>
    /\ UNCHANGED <<loginResponse, allCookies, currentUrl, redirectCount,
                   dashboardResponse, pending, options, last, ret, pureVars>>

\* the POST's answer arrives: check it, then enter the redirect loop
OnLoginResponse ==
    /\ pc = "awaitPost"
    /\ \E resp \in LoginResponses :
         /\ loginResponse' = <<resp>>
         /\ allCookies' = resp.setCookie
         /\ IF LoginRejected(resp.setCookie, resp.statusCode)
            THEN /\ Throw("LoginFailed")
                 /\ UNCHANGED <<currentUrl, redirectCount>>
            ELSE /\ currentUrl' = resp.location
                 /\ redirectCount' = 0
                 /\ LoopHead(resp.setCookie, resp.location, 0, dashboardResponse)
    /\ UNCHANGED <<loginPageResponse, dashboardResponse, pending, options, last, ret,
                   pureVars>>

\* the hop's cookies kept in place of the collected ones
Collect_Replace(cookies, setCookie) ==
    IF Len(setCookie) > 0 THEN setCookie ELSE cookies

\* if (dashboardResponse.headers['set-cookie'])
\*     allCookies = allCookies.concat(dashboardResponse.headers['set-cookie'])
Collect(cookies, setCookie) ==
    IF Len(setCookie) > 0 THEN cookies \o setCookie ELSE cookies

\* a hop's answer arrives: collect its cookies, stop or follow
OnHopResponse ==
    /\ pc = "awaitHop"
    /\ \E resp \in HopResponses :
         LET cookies == Collect(allCookies, resp.setCookie)
         IN  /\ dashboardResponse' = <<resp>>
             /\ allCookies' = cookies
             /\ IF NotRedirect(resp.statusCode)
                THEN /\ AfterLoop(cookies, redirectCount, resp)
                     /\ UNCHANGED <<currentUrl, redirectCount>>
                ELSE /\ currentUrl' = resp.location
                     /\ redirectCount' = redirectCount + 1
                     /\ LoopHead(cookies, resp.location, redirectCount + 1, <<resp>>)
    /\ UNCHANGED <<loginPageResponse, loginResponse, pending, options, last, ret, pureVars>>

\* const session = await login(...): the caller receives the Session and
\* login's frame is gone
LoginReturns ==
    /\ pc = "done"
    /\ pc' = "ready"
    /\ loginPageResponse' = <<>>
    /\ loginResponse' = <<>>
    /\ allCookies' = <<>>
    /\ currentUrl' = NoHeader
    /\ redirectCount' = 0
    /\ dashboardResponse' = <<>>
    /\ UNCHANGED <<loginResult, nReq, lastReq, session, pending, options, last, ret,
                   pureVars>>

(***************************************************************************)
(* reportById: columns and rows to objects                                 *)
(***************************************************************************)
\* A row is an array of elements; an element is a scalar or an array of
\* scalars.
Scalar(v) == [arr |-> FALSE, sc |-> v, items |-> <<>>]

Array(vs) == [arr |-> TRUE, sc |-> Undefined, items |-> vs]

RECURSIVE FlatFrom(_, _)
FlatFrom(row, i) ==
    IF i > Len(row) THEN <<>>
    ELSE (IF row[i].arr THEN row[i].items ELSE <<row[i].sc>>) \o FlatFrom(row, i + 1)

\* row.flat(): one level of nesting removed
Flat(row) == FlatFrom(row, 1)

\* Array.isArray(row) && row.length > 1 ? row[1] : row.flat()
RowValues(row) == IF Len(row) > 1 THEN row[2] ELSE Array(Flat(row))

\* values[index] throws a TypeError when values is null or undefined
IndexThrows(values) == ~values.arr /\ values.sc \in {Null, Undefined}

\* values[index], index counted from 0: an element of an array, a character
\* of a string, undefined on a number or a boolean
ValueAt(values, index) ==
    IF values.arr
    THEN IF index < Len(values.items) THEN values.items[index + 1] ELSE Undefined
    ELSE IF values.sc[1] = "str"
    THEN IF index < Len(values.sc) - 1
         THEN <<"str", values.sc[index + 2]>>
         ELSE Undefined
    ELSE Undefined

\* values[index] !== undefined ? values[index] : null
CellValue(values, index) ==
    IF ValueAt(values, index) # Undefined THEN ValueAt(values, index) ELSE Null

\* obj[label] = value
Assign(obj, label, value) ==
    [k \in DOMAIN obj \cup {label} |-> IF k = label THEN value ELSE obj[k]]

RECURSIVE ZipFrom(_, _, _, _)
ZipFrom(obj, columnLabels, values, i) ==
    IF i > Len(columnLabels) THEN obj
    ELSE ZipFrom(Assign(obj, columnLabels[i], CellValue(values, i - 1)),
                 columnLabels, values, i + 1)

\* columnLabels.forEach((label, index) => { obj[label] = ... })
RowObject(columnLabels, values) == ZipFrom(<<>>, columnLabels, values, 1)

\* columns.map(col => col.label)
ColumnLabels(columns) == [i \in 1..Len(columns) |-> columns[i].label]

\* the callback of rows.map throws on a row whose values cannot be indexed
RowThrows(columnLabels, row) ==
    Len(columnLabels) > 0 /\ IndexThrows(RowValues(row))

\* rows.map(row => ...): the objects, the values each row was decoded to,
\* or a TypeError
ReportRows(columns, rows) ==
    LET columnLabels == ColumnLabels(columns)
        threw == \E r \in 1..Len(rows) : RowThrows(columnLabels, rows[r])
    IN  [threw |-> threw,
         values |-> [r \in 1..Len(rows) |-> RowValues(rows[r])],
         objs |-> IF threw THEN <<>>
                  ELSE [r \in 1..Len(rows) |->
                           RowObject(columnLabels, RowValues(rows[r]))]]

(***************************************************************************)
(* _formatMemberData                                                       *)
(***************************************************************************)
FlatKeys == {"id", "name", "first_name", "last_name", "email", "phone_number",
             "image_url", "status", "good_standing"}

NestedKeys == {"first_name", "last_name", "email", "phone_number", "member_status"}

\* member.contact_information?.key: undefined when contact_information is
\* missing or null
OptChain(ci, key) == IF ci.kind = "object" THEN ci.obj[key] ELSE Undefined

\* a key the source object lacks reads as undefined
_formatMemberData(m) ==
    [id |-> m.flat["id"],
     name |-> m.flat["name"],
     firstName |-> Or(m.flat["first_name"], OptChain(m.ci, "first_name")),
     lastName |-> Or(m.flat["last_name"], OptChain(m.ci, "last_name")),
     email |-> Or(m.flat["email"], OptChain(m.ci, "email")),
     phone |-> Or(m.flat["phone_number"], OptChain(m.ci, "phone_number")),
     imageUrl |-> m.flat["image_url"],
     status |-> Or(m.flat["status"], OptChain(m.ci, "member_status")),
     goodStanding |-> m.flat["good_standing"]]

(***************************************************************************)
(* The JSON bodies the endpoints may answer with                           *)
(***************************************************************************)
StrX == <<"str", "x">>

StrY == <<"str", "y">>

StrAB == <<"str", "a", "b">>

NoContact == [kind |-> "absent", obj |-> [k \in NestedKeys |-> Undefined]]

NullContact == [kind |-> "null", obj |-> [k \in NestedKeys |-> Undefined]]

Contact(o) == [kind |-> "object", obj |-> o]

\* a JSON object read as a member: the keys it lacks read as undefined
Object(f, ci) ==
    [flat |-> [k \in FlatKeys |-> IF k \in DOMAIN f THEN f[k] ELSE Undefined],
     ci |-> ci]

EmptyObject == Object(<<>>, NoContact)

ItemA == Object([id |-> Num7, name |-> StrAB], NoContact)

ItemB ==
    Object([id |-> Num0, name |-> StrX, first_name |-> StrX, email |-> StrEmpty],
           Contact([k \in NestedKeys |-> IF k = "email" THEN StrY ELSE Undefined]))

\* a response body: a text JSON.parse rejects (wf FALSE), the literal null,
\* or an object with its collection, its report fields, its member fields
Body(w, n, hc, c, hr, cols, rows, o) ==
    [wf |-> w, isNull |-> n, hasCollection |-> hc, collection |-> c,
     hasReport |-> hr, columns |-> cols, rows |-> rows, obj |-> o]

MalformedBody == Body(FALSE, FALSE, FALSE, <<>>, FALSE, <<>>, <<>>, EmptyObject)

NullBody == Body(TRUE, TRUE, FALSE, <<>>, FALSE, <<>>, <<>>, EmptyObject)

ListBody == Body(TRUE, FALSE, TRUE, <<ItemA, ItemB>>, FALSE, <<>>, <<>>, EmptyObject)

ReportBody ==
    Body(TRUE, FALSE, FALSE, <<>>, TRUE,
         <<[label |-> "A"], [label |-> "B"]>>,
         << <<Array(<<Num7>>), Array(<<StrX, Num0>>)>>,
            <<Array(<<>>), Array(<<StrY>>)>> >>,
         EmptyObject)

MemberBody == Body(TRUE, FALSE, FALSE, <<>>, FALSE, <<>>, <<>>, ItemB)

Bodies == {MalformedBody, NullBody, ListBody, ReportBody, MemberBody}

AccessorLocations ==
    {NoHeader, Header(Origin \o SignInPath \o <<"?r=1">>),
     Header(<<"/sign_in", "/users">>)}

AccessorResponses ==
    [statusCode : {200, 301, 302, 401}, location : AccessorLocations, body : Bodies]

NoResponse == [statusCode |-> 0, location |-> NoHeader, body |-> MalformedBody]

(***************************************************************************)
(* Session: authenticated requests and accessors                           *)
(***************************************************************************)
\* `${value}` in a URL template
ToStr(v) == IF Len(v) > 1 THEN Tail(v) ELSE IF v[1] = "str" THEN <<>> ELSE v

GymUrl(s, path) == Origin \o <<"/gyms/">> \o ToStr(s.gymId) \o path

\* Array.isArray(this.cookies) ? this.cookies.map(...).join('; ') : this.cookies
SessionCookieHeader(s) ==
    IF s.cookies.kind = "array" THEN CookieHeader(s.cookies.items) ELSE s.cookies.str

\* only the 401 check, without the redirect-to-login check
SessionExpiredSignal_401Only(resp) == resp.statusCode = 401

\* response.statusCode === 401, or
\* response.statusCode === 302 && response.headers['location']?.includes('/users/sign_in')
SessionExpiredSignal(resp) ==
    \/ resp.statusCode = 401
    \/ /\ resp.statusCode = 302
       /\ resp.location.defined
       /\ Includes(resp.location.url, SignInPath)

\* the joined header cached back into this.cookies
SessionAfterRequest_Caching(s) ==
    [s EXCEPT !.cookies = StringCookies(SessionCookieHeader(s))]

\* authenticatedRequest and the accessors read this.cookies and this.gymId
\* and assign neither
SessionAfterRequest(s) == s

Result(o, p, v) == [outcome |-> o, parsed |-> p, value |-> v]

Expired == Result("SessionExpired", FALSE, Undefined)

\* JSON.parse(response.body) and what the accessor's code makes of the data;
\* reading a property of null or calling map on undefined is a TypeError
allReportsResult(body) ==
    IF ~body.wf THEN Result("SyntaxError", TRUE, Undefined)
    ELSE IF body.isNull \/ ~body.hasCollection THEN Result("TypeError", TRUE, Undefined)
    ELSE Result("returned", TRUE,
                [i \in 1..Len(body.collection) |->
                    [id |-> body.collection[i].flat["id"],
                     name |-> body.collection[i].flat["name"]]])

reportByIdResult(body) ==
    IF ~body.wf THEN Result("SyntaxError", TRUE, Undefined)
    ELSE IF body.isNull THEN Result("TypeError", TRUE, Undefined)
    ELSE LET columns == IF body.hasReport THEN body.columns ELSE <<>>
             rows == IF body.hasReport THEN body.rows ELSE <<>>
             out == ReportRows(columns, rows)
         IN  IF out.threw THEN Result("TypeError", TRUE, Undefined)
             ELSE Result("returned", TRUE, out.objs)

membersResult(body) ==
    IF ~body.wf THEN Result("SyntaxError", TRUE, Undefined)
    ELSE IF body.isNull \/ ~body.hasCollection THEN Result("TypeError", TRUE, Undefined)
    ELSE Result("returned", TRUE,
                [i \in 1..Len(body.collection) |->
                    _formatMemberData(body.collection[i])])

memberByIdResult(body) ==
    IF ~body.wf THEN Result("SyntaxError", TRUE, Undefined)
    ELSE IF body.isNull THEN Result("TypeError", TRUE, Undefined)
    ELSE Result("returned", TRUE, _formatMemberData(body.obj))

financialsResult(body) ==
    IF ~body.wf THEN Result("SyntaxError", TRUE, Undefined)
    ELSE Result("returned", TRUE, body)

\* a Session exists, no login is under way and no call is pending
SessionReady == session # <<>> /\ pc = "ready" /\ pending = "none"

\* the options argument: method and headers, each possibly left out (an
\* undefined headers spreads nothing, as {} does)
Options(m, h) == [method |-> m, headers |-> h]

\* options = {}
NoOptions == Options(<<>>, <<>>)

EvilCookie == <<"_session=evil">>

CallerOptions ==
    {NoOptions,
     Options(<<>>, <<Pair("X-Trace", <<"t">>)>>),
     Options(<<>>, <<Pair("Cookie", EvilCookie)>>),
     Options(<<>>, <<Pair("cookie", EvilCookie)>>),
     Options(<<>>, <<Pair("Accept", <<"text/html">>)>>),
     Options(<<>>, <<Pair("accept", <<"text/csv">>), Pair("X-Trace", <<"t">>),
                     Pair("Cookie", EvilCookie)>>),
     Options(<<"POST">>, <<Pair("Cookie", EvilCookie), Pair("Accept", <<"text/html">>)>>)}

\* the caller's headers spread after the session's Cookie
RequestHeaders_CallerLast(s, o) ==
    Spread(<<Pair("Accept", <<"application/json">>),
             Pair("Cookie", SessionCookieHeader(s))>>, o.headers)

\* { 'Accept': 'application/json', ...options.headers, 'Cookie': cookieHeader }
RequestHeaders(s, o) ==
    Put(Spread(<<Pair("Accept", <<"application/json">>)>>, o.headers),
        "Cookie", SessionCookieHeader(s))

\* options.method || 'GET'
Method(o) == IF o.method = <<>> THEN "GET" ELSE o.method[1]

\* authenticatedRequest(url, options) up to its await: the request is sent
\* with the merged headers (the previous operation's record is dropped)
Send(op, url, o) ==
    /\ SessionReady
    /\ pending' = op
    /\ options' = <<o>>
    /\ lastReq' = <<Request(Method(o), url, RequestHeaders(session[1], o), Null)>>
    /\ session' = <<SessionAfterRequest(session[1])>>
    /\ last' = <<>>
    /\ ret' = Undefined
    /\ UNCHANGED <<loginVars, pureVars>>

\* the response arrives: an expiry signal throws before the accessor sees the
\* response; otherwise the accessor goes on to `result`
Receive(op, resp, result) ==
    /\ pending = op
    /\ pending' = "none"
    /\ options' = <<>>
    /\ last' = <<[op |-> op, resp |-> resp,
                  outcome |-> IF SessionExpiredSignal(resp)
                              THEN Expired.outcome ELSE result.outcome,
                  parsed |-> IF SessionExpiredSignal(resp)
                             THEN Expired.parsed ELSE result.parsed]>>
    /\ ret' = IF SessionExpiredSignal(resp) THEN Expired.value ELSE result.value
    /\ UNCHANGED <<loginVars, lastReq, session, pureVars>>

AuthenticatedRequest ==
    \E o \in CallerOptions :
        Send("authenticatedRequest", GymUrl(session[1], <<"/x">>), o)

OnAuthenticatedResponse ==
    \E resp \in AccessorResponses :
        Receive("authenticatedRequest", resp, Result("returned", FALSE, resp))

AllReports ==
    Send("allReports",
         GymUrl(session[1], <<"/reports", "?paginate=1&page=", "1", "&count=", "100">>),
         NoOptions)

OnAllReportsResponse ==
    \E resp \in AccessorResponses :
        Receive("allReports", resp, allReportsResult(resp.body))

ReportById ==
    Send("reportById",
         GymUrl(session[1], <<"/reports/", "5", "?count=", "100", "&page=", "1">>),
         NoOptions)

OnReportByIdResponse ==
    \E resp \in AccessorResponses :
        Receive("reportById", resp, reportByIdResult(resp.body))

Members ==
    Send("members", GymUrl(session[1], <<"/members", "?page=", "1", "&count=", "100">>),
         NoOptions)

OnMembersResponse ==
    \E resp \in AccessorResponses :
        Receive("members", resp, membersResult(resp.body))

MemberById == Send("memberById", GymUrl(session[1], <<"/contacts/", "5">>), NoOptions)

OnMemberByIdResponse ==
    \E resp \in AccessorResponses :
        Receive("memberById", resp, memberByIdResult(resp.body))

Financials ==
    Send("financials", GymUrl(session[1], <<"/dashboard", "/financials">>), NoOptions)

OnFinancialsResponse ==
    \E resp \in AccessorResponses :
        Receive("financials", resp, financialsResult(resp.body))

Op(op, outcome) ==
    [op |-> op, resp |-> NoResponse, outcome |-> outcome, parsed |-> FALSE]

\* session.toJSON()
ToJSON ==
    /\ SessionReady
    /\ last' = <<Op("toJSON", "returned")>>
    /\ ret' = toJSON(session[1])
    /\ UNCHANGED <<loginVars, pureVars, lastReq, session, pending, options>>

\* Session.fromJSON(session.toJSON()); the caller keeps the restored Session
RoundTrip ==
    /\ SessionReady
    /\ LET data == toJSON(session[1])
       IN  IF fromJSONThrows(data)
           THEN /\ last' = <<Op("roundTrip", "InvalidSessionData")>>
                /\ ret' = Undefined
                /\ UNCHANGED session
           ELSE /\ last' = <<Op("roundTrip", "returned")>>
                /\ ret' = fromJSON(data)
                /\ session' = <<fromJSON(data)>>
    /\ UNCHANGED <<loginVars, pureVars, lastReq, pending, options>>

ConstructorCookies ==
    {ArrayCookies(<<>>), ArrayCookies(<<CookieA, CookieB>>),
     StringCookies(<<>>), StringCookies(<<"_session=a">>)}

ConstructorGymIds == {Num7, StrG1, Num0, StrEmpty}

\* new Session(cookies, gymId), by the caller
Construct ==
    /\ pc = "start"
    /\ \E cookies \in ConstructorCookies, gymId \in ConstructorGymIds :
         session' = <<NewSession(cookies, gymId)>>
    /\ pc' = "ready"
    /\ UNCHANGED <<loginResult, locals, nReq, lastReq, pending, options, last, ret,
                   pureVars>>

StoredData ==
    {[isNullish |-> TRUE, cookies |-> NoCookies, gymId |-> Undefined],
     [isNullish |-> FALSE, cookies |-> NoCookies, gymId |-> Undefined],
     [isNullish |-> FALSE, cookies |-> ArrayCookies(<<CookieA>>), gymId |-> Undefined],
     [isNullish |-> FALSE, cookies |-> NoCookies, gymId |-> Num7],
     [isNullish |-> FALSE, cookies |-> ArrayCookies(<<CookieA>>), gymId |-> Num7],
     [isNullish |-> FALSE, cookies |-> ArrayCookies(<<>>), gymId |-> StrG1]}

\* Session.fromJSON(data) on data read back from storage
Restore ==
    /\ pc = "start"
    /\ \E data \in StoredData :
         IF fromJSONThrows(data)
         THEN /\ last' = <<Op("fromJSON", "InvalidSessionData")>>
              /\ ret' = Undefined
              /\ UNCHANGED <<pc, session>>
         ELSE /\ last' = <<Op("fromJSON", "returned")>>
              /\ ret' = fromJSON(data)
              /\ session' = <<fromJSON(data)>>
              /\ pc' = "ready"
    /\ UNCHANGED <<loginResult, locals, nReq, lastReq, pending, options, pureVars>>

(***************************************************************************)
(* The client: one login or one restored Session, then its use             *)
(***************************************************************************)
EmptyReport == [columns |-> <<>>, rows |-> <<>>]

InitClient ==
    /\ pc = "start"
    /\ loginResult = "none"
    /\ loginPageResponse = <<>>
    /\ loginResponse = <<>>
    /\ allCookies = <<>>
    /\ currentUrl = NoHeader
    /\ redirectCount = 0
    /\ dashboardResponse = <<>>
    /\ nReq = [get |-> 0, post |-> 0, hop |-> 0]
    /\ lastReq = <<>>
    /\ session = <<>>
    /\ pending = "none"
    /\ options = <<>>
    /\ last = <<>>
    /\ ret = Undefined

Init ==
    /\ InitClient
    /\ rbody = EmptyReport
    /\ rout = <<>>
    /\ member = EmptyObject
    /\ mout = <<>>

Next ==
    \/ LoginCall
    \/ OnSignInPage
    \/ OnLoginResponse
    \/ OnHopResponse
    \/ LoginReturns
    \/ Construct
    \/ Restore
    \/ AuthenticatedRequest
    \/ OnAuthenticatedResponse
    \/ AllReports
    \/ OnAllReportsResponse
    \/ ReportById
    \/ OnReportByIdResponse
    \/ Members
    \/ OnMembersResponse
    \/ MemberById
    \/ OnMemberByIdResponse
    \/ Financials
    \/ OnFinancialsResponse
    \/ ToJSON
    \/ RoundTrip

Spec == Init /\ [][Next]_vars

\* every request gets its response: what login awaits is resolved (an
\* `await request(...)` of login resumes when the response has ended)
ResponsesArrive ==
    /\ WF_pc(OnSignInPage)
    /\ WF_pc(OnLoginResponse)
    /\ WF_pc(OnHopResponse)

\* one call of login, from the call to the caller's receiving the Session
NextLogin ==
    \/ LoginCall
    \/ OnSignInPage
    \/ OnLoginResponse
    \/ OnHopResponse
    \/ LoginReturns

SpecLogin == Init /\ [][NextLogin]_vars /\ ResponsesArrive

(***************************************************************************)
(* reportById's reshaping, on every body within the bounds                 *)
(***************************************************************************)
MaxCols == 2

MaxRows == 2

MaxRowLen == 2

MaxInner == 2

SeqsUpTo(S, n) == UNION {[1..k -> S] : k \in 0..n}

\* an element of a row: a scalar, or an array of cell values
Elements ==
    {Scalar(v) : v \in {Null, Num7, StrAB}}
    \cup {Array(vs) : vs \in SeqsUpTo({Num7, Null}, MaxInner)}

ReportBodies ==
    [columns : SeqsUpTo({[label |-> "A"], [label |-> "B"]}, MaxCols),
     rows : SeqsUpTo(SeqsUpTo(Elements, MaxRowLen), MaxRows)]

InitReport ==
    /\ InitClient
    /\ rbody \in ReportBodies
    /\ rout = <<>>
    /\ member = EmptyObject
    /\ mout = <<>>

\* reportById from the parsed body on
DecodeReport ==
    /\ rout = <<>>
    /\ rout' = <<ReportRows(rbody.columns, rbody.rows)>>
    /\ UNCHANGED <<loginVars, lastReq, session, pending, options, last, ret, rbody, member,
                   mout>>

SpecReport == InitReport /\ [][DecodeReport]_vars

(***************************************************************************)
(* _formatMemberData, on every source object within the bounds             *)
(***************************************************************************)
VariedKeys == {"first_name", "last_name", "email", "phone_number", "status"}

\* a flat field is missing, falsy ("" or 0) or a non-empty string
FlatValues == {Undefined, StrEmpty, Num0, StrX}

MemberObjects ==
    {[flat |-> [k \in FlatKeys |->
                   IF k \in VariedKeys THEN f[k]
                   ELSE IF k = "id" THEN Num7
                   ELSE IF k = "name" THEN StrAB
                   ELSE Undefined],
      ci |-> ci] :
        f \in [VariedKeys -> FlatValues],
        ci \in {NoContact, NullContact}
               \cup {Contact(o) : o \in [NestedKeys -> {Undefined, StrY}]}}

InitMember ==
    /\ InitClient
    /\ rbody = EmptyReport
    /\ rout = <<>>
    /\ member \in MemberObjects
    /\ mout = <<>>

FormatMember ==
    /\ mout = <<>>
    /\ mout' = <<_formatMemberData(member)>>
    /\ UNCHANGED <<loginVars, lastReq, session, pending, options, last, ret, rbody, rout,
                   member>>

SpecMember == InitMember /\ [][FormatMember]_vars

(***************************************************************************)
(* Properties                                                              *)
(***************************************************************************)
Accessors == {"allReports", "reportById", "members", "memberById", "financials"}

\* C1: when the response to an accessor's request has status 401, or status
\* 302 with a Location containing '/users/sign_in', the call fails with
\* SessionExpired and the body is never parsed, whatever the body is.
C1_ExpiryBeforeParse ==
    \A c \in {last[i] : i \in 1..Len(last)} :
        /\ c.op \in Accessors
        /\ \/ c.resp.statusCode = 401
           \/ /\ c.resp.statusCode = 302
              /\ c.resp.location.defined
              /\ Includes(c.resp.location.url, <<"/users", "/sign_in">>)
        => c.outcome = "SessionExpired" /\ ~c.parsed /\ ret = Undefined

\* reportById got a 302 to the sign-in page with a well-formed body and
\* failed with SessionExpired
C1_Witness ==
    /\ last # <<>>
    /\ last[1].op = "reportById"
    /\ last[1].resp.statusCode = 302
    /\ last[1].resp.location = Header(Origin \o SignInPath \o <<"?r=1">>)
    /\ last[1].resp.body = ReportBody
    /\ last[1].outcome = "SessionExpired"

\* the final page carries, as its first gym-data block, a JSON object whose
\* id is a usable (truthy) identifier
ValidGymPage(page) ==
    \E v \in {Num7, StrG1} :
        page \in {<<Script("gym-data", FALSE, JsonText(TRUE, "object", TRUE, v))>>,
                  <<OtherScript, Script("gym-data", FALSE, JsonText(TRUE, "object", TRUE, v))>>}

\* login is over (returned or threw) and its frame is still there
LoginOver == pc \in {"done", "failed"}

\* C2: after a POST answered 302 with cookies, five successive hops each
\* answering 301 or 302 make login fail with TooManyRedirects; four redirects
\* and then a 200 page with a valid gym-data block make it succeed; and
\* TooManyRedirects is raised only when five hops were made and the last one
\* was still a redirect.
C2_RedirectBudget ==
    /\ LoginOver /\ nReq.hop = 5 /\ dashboardResponse[1].statusCode \in {301, 302}
       => loginResult = "TooManyRedirects" /\ session = <<>>
    /\ LoginOver /\ nReq.hop = 5 /\ dashboardResponse[1].statusCode = 200
                 /\ ValidGymPage(dashboardResponse[1].body)
       => pc = "done" /\ loginResult = "Session" /\ session # <<>> /\ redirectCount = 4
    /\ loginResult = "TooManyRedirects"
       => nReq.hop = 5 /\ redirectCount = 5
          /\ dashboardResponse[1].statusCode \in {301, 302}

\* login returned a Session from the fifth hop, after four redirects
C2_Witness ==
    /\ pc = "done"
    /\ nReq.hop = 5
    /\ redirectCount = 4
    /\ dashboardResponse[1].statusCode = 200
    /\ loginResult = "Session"

\* C3: a credential POST response whose status is not 302, or that carries no
\* Set-Cookie, makes login fail with LoginFailed without any redirect-hop
\* request; a hop request is only ever issued after a POST response that is
\* 302 and carries at least one Set-Cookie.
C3_PostMustBe302WithCookies ==
    /\ \A r \in {loginResponse[i] : i \in 1..Len(loginResponse)} :
           r.statusCode # 302 \/ r.setCookie = <<>>
           => /\ pc = "failed"
              /\ loginResult = "LoginFailed"
              /\ nReq.hop = 0
              /\ session = <<>>
    /\ nReq.hop > 0 /\ pc # "ready"
       => /\ loginResponse # <<>>
          /\ loginResponse[1].statusCode = 302
          /\ Len(loginResponse[1].setCookie) >= 1

\* the POST was answered 302 without cookies and login failed with LoginFailed
C3_Witness ==
    /\ loginResponse # <<>>
    /\ loginResponse[1].statusCode = 302
    /\ loginResponse[1].setCookie = <<>>
    /\ loginResult = "LoginFailed"
    /\ nReq.hop = 0

\* the first gym-data block of the page is a JSON object with an id field
HasIdBlock(page) ==
    \E i \in 1..Len(page) :
        /\ page[i].id = "gym-data"
        /\ \A k \in 1..(i - 1) : page[k].id # "gym-data"
        /\ ~page[i].empty
        /\ page[i].text.wf
        /\ page[i].text.kind = "object"
        /\ page[i].text.hasId

IdOf(page) ==
    page[CHOOSE i \in 1..Len(page) : page[i].id = "gym-data"
                                     /\ \A k \in 1..(i - 1) : page[k].id # "gym-data"].text.id

\* C4: for every final (non-redirect) page with a gym-data JSON block that
\* has an id field, login returns a Session whose gymId is that field,
\* whatever its value (0, "", false and null included); GymIdNotFound only
\* when the block is missing, is no JSON or has no id field.
C4_AnyIdValue ==
    /\ LoginOver /\ dashboardResponse # <<>>
                 /\ dashboardResponse[1].statusCode \notin {301, 302}
                 /\ HasIdBlock(dashboardResponse[1].body)
       => /\ loginResult = "Session"
          /\ session # <<>>
          /\ session[1].gymId = IdOf(dashboardResponse[1].body)
    /\ loginResult = "GymIdNotFound" => ~HasIdBlock(dashboardResponse[1].body)

\* C5: Session.fromJSON(s.toJSON()) does not fail and yields a Session with
\* the cookies and the gymId of s, for every gymId and every cookie jar
\* (gymId 0 and an empty jar included).
C5_RoundTrip ==
    \A c \in {last[i] : i \in 1..Len(last)} :
        c.op = "roundTrip"
        => /\ c.outcome = "returned"
           /\ ret.cookies = session[1].cookies
           /\ ret.gymId = session[1].gymId

\* the value array the claims speak of: the row's second element when that is
\* an array, the flattened row otherwise
ClaimedValues(row) ==
    IF Len(row) >= 2 /\ row[2].arr THEN row[2].items ELSE Flat(row)

\* C6: reportById returns as many objects as the body has rows, in their
\* order; every object's key set is the set of column labels; a column at or
\* beyond the length of the row's value array maps to null and every other
\* column to the value at its position.
C6_RowsToObjects ==
    \A o \in {rout[i] : i \in 1..Len(rout)} :
        /\ ~o.threw
        /\ Len(o.objs) = Len(rbody.rows)
        /\ \A r \in 1..Len(rbody.rows) :
               /\ DOMAIN o.objs[r] = {rbody.columns[c].label : c \in 1..Len(rbody.columns)}
               /\ \A c \in 1..Len(rbody.columns) :
                      o.objs[r][rbody.columns[c].label] =
                          IF c > Len(ClaimedValues(rbody.rows[r])) THEN Null
                          ELSE ClaimedValues(rbody.rows[r])[c]

\* the flat or nested field is present in the source object
Present(v) == v # Undefined

FieldPairs ==
    {<<"firstName", "first_name", "first_name">>,
     <<"lastName", "last_name", "last_name">>,
     <<"email", "email", "email">>,
     <<"phone", "phone_number", "phone_number">>,
     <<"status", "status", "member_status">>}

\* C7: for firstName, lastName, email, phone and status: with the flat and the
\* nested field both present the output is the flat value, whatever it is ("" or
\* 0 included); with only the nested field present it is the nested value;
\* with neither it is undefined.
C7_FlatBeforeNested ==
    \A o \in {mout[i] : i \in 1..Len(mout)} :
        \A f \in FieldPairs :
            LET flat == member.flat[f[2]]
                nested == IF member.ci.kind = "object" THEN member.ci.obj[f[3]]
                          ELSE Undefined
            IN  /\ Present(flat) /\ Present(nested) => o[f[1]] = flat
                /\ ~Present(flat) /\ Present(nested) => o[f[1]] = nested
                /\ ~Present(flat) /\ ~Present(nested) => o[f[1]] = Undefined

LoginErrors == {"AuthTokenNotFound", "LoginFailed", "TooManyRedirects", "GymIdNotFound"}

\* the sign-in page has no authenticity_token attribute
LacksToken(page) == \A i \in 1..Len(page) : page[i].name # "authenticity_token"

\* C8 (what holds of every state): a sign-in page without the token makes
\* login fail with AuthTokenNotFound before any POST; every failure leaves no
\* Session and carries the error kind of the step that failed, with the
\* requests of the steps before it and none after.
C8_FailedStep ==
    /\ \A r \in {loginPageResponse[i] : i \in 1..Len(loginPageResponse)} :
           LacksToken(r.body)
           => pc = "failed" /\ loginResult = "AuthTokenNotFound"
    /\ pc = "failed" => session = <<>> /\ loginResult \in LoginErrors \cup {"TypeError"}
    /\ loginResult = "AuthTokenNotFound"
       => pc = "failed" /\ nReq = [get |-> 1, post |-> 0, hop |-> 0]
          /\ loginResponse = <<>> /\ dashboardResponse = <<>>
    /\ loginResult = "LoginFailed"
       => pc = "failed" /\ nReq = [get |-> 1, post |-> 1, hop |-> 0]
          /\ dashboardResponse = <<>>
          /\ (loginResponse[1].statusCode # 302 \/ loginResponse[1].setCookie = <<>>)
    /\ loginResult = "TooManyRedirects"
       => pc = "failed" /\ nReq = [get |-> 1, post |-> 1, hop |-> 5]
    /\ loginResult = "GymIdNotFound"
       => pc = "failed" /\ nReq.get = 1 /\ nReq.post = 1 /\ nReq.hop = redirectCount + 1
          /\ dashboardResponse[1].statusCode \notin {301, 302}
          /\ ~ValidGymPage(dashboardResponse[1].body)

\* C8: login aborts at its first failing step: the state of a failed login is
\* as C8_FailedStep says, and once login has failed no request is issued, no
\* Session appears and the error kind stays.
C8_AbortAtFirstFailure ==
    /\ []C8_FailedStep
    /\ [][pc = "failed" => UNCHANGED <<pc, loginResult, nReq, lastReq, session>>]_vars

\* the sign-in page had no token attribute; login failed with one GET sent
C8_Witness ==
    /\ loginPageResponse # <<>>
    /\ loginPageResponse[1].body = <<Attr("utf8", <<"x">>)>>
    /\ loginResult = "AuthTokenNotFound"
    /\ nReq.get = 1

\* C9: once a Session exists, no step (an accessor call, its success, its
\* SessionExpired or its parse failure, authenticatedRequest, toJSON, a
\* round trip) changes its gymId or its cookie jar; a Session only comes
\* into being where there was none.
C9_SessionFrame == [][session # <<>> => session' = session]_vars

\* a login-built Session has just had members fail on parsing
C9_Witness ==
    /\ loginResult = "Session"
    /\ session # <<>>
    /\ last # <<>>
    /\ last[1].op = "members"
    /\ last[1].outcome = "SyntaxError"

\* C10: the values zipped against the labels are the row's second element
\* exactly when that element is itself an array; in every other case (fewer
\* than 2 elements, or a second element that is no array) they are the
\* flattened row.
C10_RowDecoding ==
    \A o \in {rout[i] : i \in 1..Len(rout)} :
        \A r \in 1..Len(rbody.rows) :
            o.values[r] = IF Len(rbody.rows[r]) >= 2 /\ rbody.rows[r][2].arr
                          THEN rbody.rows[r][2]
                          ELSE Array(Flat(rbody.rows[r]))

\* every entry cut at its first ';', the cuts joined with '; '
CutAndJoin(items) == Join([i \in 1..Len(items) |-> SplitFirst(items[i])])

\* the Cookie header the jar stands for: every entry cut at its first ';',
\* the cuts joined with '; ' (a jar kept as one joined string goes out as it is)
JarCookie(s) ==
    IF s.cookies.kind = "array" THEN CutAndJoin(s.cookies.items) ELSE s.cookies.str

\* C11: for every request a Session sends and every set of caller headers (one
\* with its own Cookie entry, in either case, included), the Cookie header
\* sent is the one derived from the session's jar; every other caller header
\* is sent with the caller's value; Accept is 'application/json' unless the
\* caller supplies Accept; and nothing else is sent.
C11_CookieFromJar ==
    pending # "none"
    => LET o == options[1]
           h == lastReq[1].headers
       IN  /\ HeaderSent(h, "cookie") = <<JarCookie(session[1])>>
           /\ \A n \in NamesSent(o.headers) \ {"cookie"} :
                  HeaderSent(h, n) = HeaderSent(o.headers, n)
           /\ "accept" \notin NamesSent(o.headers)
              => HeaderSent(h, "accept") = << <<"application/json">> >>
           /\ NamesSent(h) = NamesSent(o.headers) \cup {"accept", "cookie"}

\* authenticatedRequest is pending on a login-built Session with two cookies,
\* called with headers that carry their own Cookie, an accept and an X-Trace
C11_Witness ==
    /\ pending = "authenticatedRequest"
    /\ loginResult = "Session"
    /\ session[1].cookies = ArrayCookies(<<CookieB, CookieA, CookieB>>)
    /\ HeaderSent(options[1].headers, "cookie") = <<EvilCookie>>
    /\ HeaderSent(options[1].headers, "x-trace") = << <<"t">> >>
    /\ lastReq[1].cookie = <<"remember=b", ";", " ", "_session=a", ";", " ", "remember=b">>
    /\ HeaderSent(lastReq[1].headers, "accept") = << <<"text/csv">> >>

IsPrefix(a, b) == Len(a) <= Len(b) /\ SubSeq(b, 1, Len(a)) = a

\* the entries of a sequence
Entries(q) == {q[i] : i \in 1..Len(q)}

\* C12 (what holds of every state): while login follows redirects and when it
\* has returned, the jar begins with the POST response's Set-Cookie entries
\* and holds none of the sign-in page's; a pending hop request is a GET whose
\* Cookie header replays the whole jar; the Session returned holds the jar.
C12_JarState ==
    /\ pc \in {"awaitHop", "done"}
       => /\ IsPrefix(loginResponse[1].setCookie, allCookies)
          /\ Len(allCookies) >= 1
          /\ Entries(allCookies) \cap Entries(loginPageResponse[1].setCookie) = {}
    /\ pc = "awaitHop"
       => /\ lastReq[1].method = "GET"
          /\ HeaderSent(lastReq[1].headers, "cookie") = <<CutAndJoin(allCookies)>>
    /\ pc = "awaitPost"
       => /\ lastReq[1].method = "POST"
          /\ HeaderSent(lastReq[1].headers, "cookie")
               = <<CutAndJoin(loginPageResponse[1].setCookie)>>
    /\ pc = "done"
       => /\ session[1].cookies = ArrayCookies(allCookies)
          /\ \E k \in 0..nReq.hop :
                 Len(allCookies) = Len(loginResponse[1].setCookie) + k

\* C12: cookie accumulation during login: the jar starts as the Set-Cookie
\* entries of the POST response; every hop response appends its Set-Cookie
\* entries at the end (the jar before is a prefix of the jar after, nothing
\* pruned, reordered or deduplicated); every hop request replays the whole
\* jar; the Session returned holds exactly the jar, without the sign-in
\* page's cookies, which only the POST replays.
C12_CookieAccumulation ==
    /\ []C12_JarState
    /\ [][/\ pc = "awaitPost" => allCookies' = loginResponse'[1].setCookie
          /\ pc = "awaitHop"
             => /\ allCookies' = allCookies \o dashboardResponse'[1].setCookie
                /\ IsPrefix(allCookies, allCookies')]_vars

\* login returned, after two hops, a Session whose jar is the POST's two
\* cookies and a hop's repeat of one of them; the sign-in page had set a cookie
C12_Witness ==
    /\ pc = "done"
    /\ nReq.hop = 2
    /\ loginPageResponse[1].setCookie = <<CookieInit>>
    /\ loginResponse[1].setCookie = <<CookieB, CookieA>>
    /\ session[1].cookies = ArrayCookies(<<CookieB, CookieA, CookieB>>)
    /\ lastReq[1].cookie \in {<<"remember=b", ";", " ", "_session=a">>,
                               <<"remember=b", ";", " ", "_session=a", ";", " ", "remember=b">>}

\* login has been called and its frame is still there
LoginCalled == pc \in {"awaitPage", "awaitPost", "awaitHop", "done", "failed"}

\* C13 (what holds of every state): a login call has issued exactly one
\* sign-in page GET, at most one POST and at most 5 hop GETs (7 requests at
\* most); a POST only after the page GET and a hop only after the POST; the
\* hop that is pending was issued on a 302 of the POST (the first hop) or on
\* a 301/302 of the hop before it; a login that is over has a Session or an
\* error.
C13_RequestBudget ==
    /\ nReq.get <= 1 /\ nReq.post <= 1 /\ nReq.hop <= 5
    /\ nReq.get + nReq.post + nReq.hop <= 7
    /\ LoginCalled => nReq.get = 1
    /\ nReq.hop >= 1 => nReq.post = 1
    /\ nReq.post = 1 => nReq.get = 1
    /\ pc = "awaitHop"
       => IF nReq.hop = 1
          THEN loginResponse[1].statusCode = 302 /\ dashboardResponse = <<>>
          ELSE dashboardResponse[1].statusCode \in {301, 302}
    /\ pc = "done" => loginResult = "Session" /\ session # <<>>
    /\ pc = "failed" => loginResult \in LoginErrors \cup {"TypeError"} /\ session = <<>>

\* C13: every login call terminates, with a Session or an error, after at
\* most 7 requests (one page GET, at most one POST, 0 to 5 hops), provided
\* every request gets a response; a step issues at most one request, the
\* page GET only as the first request, the POST only as the second, a hop
\* only on a 301/302 (for the first hop the POST's 302), and no request is
\* issued once login is over.
C13_LoginTerminates ==
    /\ []C13_RequestBudget
    /\ [][/\ nReq'.get # nReq.get
             => nReq = [get |-> 0, post |-> 0, hop |-> 0] /\ nReq'.get = 1
                /\ nReq'.post = 0 /\ nReq'.hop = 0
          /\ nReq'.post # nReq.post
             => nReq = [get |-> 1, post |-> 0, hop |-> 0] /\ nReq'.post = 1
                /\ nReq'.get = 1 /\ nReq'.hop = 0
          /\ nReq'.hop # nReq.hop
             => /\ nReq' = [nReq EXCEPT !.hop = @ + 1]
                /\ IF nReq.hop = 0 THEN loginResponse'[1].statusCode = 302
                   ELSE dashboardResponse'[1].statusCode \in {301, 302}
          /\ LoginOver => nReq' = nReq]_<<pc, nReq>>
    /\ (pc = "awaitPage" ~> LoginOver)

\* login ended on its seventh request: the fifth hop was still a redirect
C13_Witness ==
    /\ pc = "failed"
    /\ loginResult = "TooManyRedirects"
    /\ nReq = [get |-> 1, post |-> 1, hop |-> 5]
    /\ lastReq[1].method = "GET"

====
